---- MODULE Spec2Model ----
(***************************************************************************)
(* A model of the go_logger package (package logger): the level filter,    *)
(* the routing installed by Init / InitWithFile, the backend writers, the  *)
(* mutex-guarded logging operations and the fatal exit path.               *)
(*                                                                         *)
(* Text is modelled as a sequence of string tokens.  The filter string of  *)
(* parseLevels is a sequence of single characters; a log line is a         *)
(* sequence of tokens in which the bytes that the code inspects one by one *)
(* (ESC, "[", "m", the newline) are tokens of their own.                   *)
(***************************************************************************)
EXTENDS Integers, Sequences, FiniteSets, TLC

VARIABLES
    env,            \* value of the LOGGER_LEVELS environment variable
    enabledLevels,  \* enabledLevels map: Level -> bool
    loggers,        \* Debug, Info, Warning, Error, Fatal (*log.Logger), by level
    programName,    \* programName
    logFile,        \* logFile: an open-file handle, or Nil
    logMutex,       \* logMutex: the thread holding it, or NoThread
    handles,        \* the process's file handles, in order of opening
    files,          \* contents of the files, by path
    outStdout,      \* bytes that reached outStdout
    outStderr,      \* bytes that reached outStderr
    osStderr,       \* diagnostics printed on os.Stderr
    journal,        \* the sends the journal collaborator received
    alive,          \* FALSE once os.Exit was called
    exitStatus,     \* the status given to os.Exit
    pc,             \* where each thread is inside a logging operation
    call,           \* the logging call each thread is making
    nCalls,         \* logging calls each thread has started so far
    issued,         \* the calls that passed the enablement check
    lastInit,       \* arguments and journal answer of the latest initialization
    ret,            \* how each thread's latest call ended
    closeErr,       \* what the latest Close returned: "nil", "err", or "none" so far
    input,          \* argument of a pure function under test
    output          \* result of a pure function under test

vars == <<env, enabledLevels, loggers, programName, logFile, logMutex, handles,
          files, outStdout, outStderr, osStderr, journal, alive, exitStatus,
          pc, call, nCalls, issued, lastInit, ret, closeErr, input, output>>

(***************************************************************************)
(* Bounds of the model.                                                    *)
(***************************************************************************)
NumThreads == 2     \* concurrent callers
MaxCalls == 2       \* logging calls in one run
MaxInits == 2       \* initialization calls in one run
MaxTokens == 2      \* comma-separated tokens of a filter string
MaxItems == 5       \* items handed to encodeFields
MaxText == 5        \* tokens of a logged message text

(***************************************************************************)
(* Severity levels (type Level, iota).                                     *)
(***************************************************************************)
DebugLevel == 0
InfoLevel == 1
WarnLevel == 2
ErrorLevel == 3
FatalLevel == 4
Levels == {DebugLevel, InfoLevel, WarnLevel, ErrorLevel, FatalLevel}

AllEnabled == [l \in Levels |-> TRUE]

(***************************************************************************)
(* Character-level string functions used by parseLevels.                   *)
(***************************************************************************)
LowerCase == <<"a","b","c","d","e","f","g","h","i","j","k","l","m",
               "n","o","p","q","r","s","t","u","v","w","x","y","z">>
UpperCase == <<"A","B","C","D","E","F","G","H","I","J","K","L","M",
               "N","O","P","Q","R","S","T","U","V","W","X","Y","Z">>

IsSpace(c) == c \in {" ", "\t", "\n", "\r"}

RECURSIVE TrimLeft(_)
TrimLeft(s) ==
    IF s # <<>> /\ IsSpace(Head(s)) THEN TrimLeft(Tail(s)) ELSE s

RECURSIVE TrimRight(_)
TrimRight(s) ==
    IF s # <<>> /\ IsSpace(s[Len(s)])
    THEN TrimRight(SubSeq(s, 1, Len(s) - 1))
    ELSE s

\* strings.TrimSpace
TrimSpace(s) == TrimRight(TrimLeft(s))

UpperChar(c) ==
    IF \E i \in 1..26 : LowerCase[i] = c
    THEN UpperCase[CHOOSE i \in 1..26 : LowerCase[i] = c]
    ELSE c

\* strings.ToUpper
ToUpper(s) == [i \in 1..Len(s) |-> UpperChar(s[i])]

\* strings.Split(s, sep) for a one-character separator
RECURSIVE Split(_, _)
Split(s, sep) ==
    IF \E i \in 1..Len(s) : s[i] = sep
    THEN LET i == CHOOSE k \in 1..Len(s) :
                      s[k] = sep /\ \A j \in 1..(k - 1) : s[j] # sep
         IN  <<SubSeq(s, 1, i - 1)>> \o Split(SubSeq(s, i + 1, Len(s)), sep)
    ELSE <<s>>

\* the switch of parseLevels without the WARNING synonym
SetLevelNoSynonym(m, tok) ==
    CASE tok = <<"D","E","B","U","G">> -> [m EXCEPT ![DebugLevel] = TRUE]
      [] tok = <<"I","N","F","O">> -> [m EXCEPT ![InfoLevel] = TRUE]
      [] tok = <<"W","A","R","N">> -> [m EXCEPT ![WarnLevel] = TRUE]
      [] tok = <<"E","R","R","O","R">> -> [m EXCEPT ![ErrorLevel] = TRUE]
      [] tok = <<"F","A","T","A","L">> -> [m EXCEPT ![FatalLevel] = TRUE]
      [] OTHER -> m

\* the switch of parseLevels: the map after one token
SetLevel(m, tok) ==
    CASE tok = <<"D","E","B","U","G">> -> [m EXCEPT ![DebugLevel] = TRUE]
      [] tok = <<"I","N","F","O">> -> [m EXCEPT ![InfoLevel] = TRUE]
      [] tok \in {<<"W","A","R","N">>, <<"W","A","R","N","I","N","G">>} ->
             [m EXCEPT ![WarnLevel] = TRUE]
      [] tok = <<"E","R","R","O","R">> -> [m EXCEPT ![ErrorLevel] = TRUE]
      [] tok = <<"F","A","T","A","L">> -> [m EXCEPT ![FatalLevel] = TRUE]
      [] OTHER -> m

\* the loop of parseLevels over the parts of the split string
RECURSIVE ParseParts(_, _)
ParseParts(parts, m) ==
    IF parts = <<>> THEN m
    ELSE ParseParts(Tail(parts), SetLevel(m, ToUpper(TrimSpace(Head(parts)))))

\* parseLevels: a level missing from the Go map reads as false
parseLevels(s) ==
    LET t == TrimSpace(s) IN
    IF t = <<>> THEN AllEnabled
    ELSE ParseParts(Split(t, ","), [l \in Levels |-> FALSE])

\* isLevelEnabled with FATAL exempt from the filter
isLevelEnabledFatalAlways(level) == level = FatalLevel \/ enabledLevels[level]

isLevelEnabled(level) == enabledLevels[level]

(***************************************************************************)
(* statusCodeToLevel                                                       *)
(***************************************************************************)
\* statusCodeToLevel with the first boundary off by one
statusCodeToLevelAbove500(code) ==
    CASE code > 500 -> ErrorLevel
      [] code <= 500 /\ code >= 400 -> WarnLevel
      [] code < 400 /\ code >= 300 -> InfoLevel
      [] OTHER -> InfoLevel

statusCodeToLevel(code) ==
    CASE code >= 500 -> ErrorLevel
      [] code < 500 /\ code >= 400 -> WarnLevel
      [] code < 400 /\ code >= 300 -> InfoLevel
      [] OTHER -> InfoLevel

(***************************************************************************)
(* Values handed to the logging operations (Go's any) and their text.      *)
(***************************************************************************)
StrV(s) == [typ |-> "string", s |-> s]
IntV(n) == [typ |-> "int", n |-> n]
BoolV(b) == [typ |-> "bool", b |-> b]

\* the %v / Sprint text of a value (the text of a string is its tokens)
FormatValue(v) ==
    CASE v.typ = "string" -> v.s
      [] v.typ = "int" -> <<ToString(v.n)>>
      [] v.typ = "bool" -> (IF v.b THEN <<"true">> ELSE <<"false">>)

\* the loop of encodeFields stepping one item past a key that is no string
RECURSIVE EncodeLoopStepOne(_, _, _)
EncodeLoopStepOne(keyvals, i, parts) ==
    IF i + 1 <= Len(keyvals)
    THEN IF keyvals[i].typ = "string"
         THEN EncodeLoopStepOne(keyvals, i + 2,
                  Append(parts, keyvals[i].s \o <<"=">> \o FormatValue(keyvals[i + 1])))
         ELSE EncodeLoopStepOne(keyvals, i + 1, parts)
    ELSE parts

\* the loop of encodeFields from index i (1-based), parts collected so far
RECURSIVE EncodeLoop(_, _, _)
EncodeLoop(keyvals, i, parts) ==
    IF i + 1 <= Len(keyvals)
    THEN IF keyvals[i].typ = "string"
         THEN EncodeLoop(keyvals, i + 2,
                  Append(parts, keyvals[i].s \o <<"=">> \o FormatValue(keyvals[i + 1])))
         ELSE EncodeLoop(keyvals, i + 2, parts)
    ELSE parts

\* strings.Join(parts, sep)
RECURSIVE Join(_, _)
Join(parts, sep) ==
    IF parts = <<>> THEN <<>>
    ELSE IF Len(parts) = 1 THEN Head(parts)
    ELSE Head(parts) \o <<sep>> \o Join(Tail(parts), sep)

encodeFields(keyvals) ==
    IF Len(keyvals) = 0 THEN <<>>
    ELSE LET parts == EncodeLoop(keyvals, 1, <<>>) IN
         IF Len(parts) = 0 THEN <<>>
         ELSE <<" ">> \o Join(parts, " ")

(***************************************************************************)
(* fmt.Sprintf and fmt.Sprint over token text.                             *)
(***************************************************************************)
Verbs == {"%s", "%d", "%v"}

\* one verb applied to one operand
FormatVerb(verb, v) ==
    IF verb = "%d" /\ v.typ # "int"
    THEN <<"%!d(">> \o FormatValue(v) \o <<")">>
    ELSE FormatValue(v)

RECURSIVE Sprintf(_, _)
Sprintf(format, v) ==
    IF format = <<>>
    THEN IF v = <<>> THEN <<>> ELSE <<"%!(EXTRA)">>
    ELSE IF Head(format) \in Verbs
         THEN IF v = <<>>
              THEN <<"%!(MISSING)">> \o Sprintf(Tail(format), v)
              ELSE FormatVerb(Head(format), Head(v)) \o Sprintf(Tail(format), Tail(v))
         ELSE <<Head(format)>> \o Sprintf(Tail(format), v)

\* fmt.Sprint with a space between every two operands, as Sprintln has
RECURSIVE SprintSpaces(_)
SprintSpaces(v) ==
    IF v = <<>> THEN <<>>
    ELSE IF Len(v) = 1 THEN FormatValue(v[1])
    ELSE FormatValue(v[1]) \o <<" ">> \o SprintSpaces(Tail(v))

\* fmt.Sprint: a space goes between two operands when neither is a string
RECURSIVE Sprint(_)
Sprint(v) ==
    IF v = <<>> THEN <<>>
    ELSE IF Len(v) = 1 THEN FormatValue(v[1])
    ELSE FormatValue(v[1])
         \o (IF v[1].typ # "string" /\ v[2].typ # "string" THEN <<" ">> ELSE <<>>)
         \o Sprint(Tail(v))

(***************************************************************************)
(* getCallerInfo over a goroutine's stack (frame 0 is getCallerInfo).      *)
(***************************************************************************)
PkgPath == <<"github.com", "mordilloSan", "go_logger">>

\* the stack ends at the logging operation: runtime.Caller(2) reports !ok
NoFrame == [absent |-> TRUE]

\* the frames of a thread that is inside getCallerInfo, called by `opName`;
\* a frame whose fn is empty has no function (runtime.FuncForPC gives nil)
StackOf(opName, callerFrame) ==
    LET inner == << [fn |-> PkgPath \o <<"logger.getCallerInfo">>, line |-> 492],
                    [fn |-> PkgPath \o <<"logger." \o opName>>, line |-> 540] >>
    IN  IF callerFrame = NoFrame THEN inner ELSE Append(inner, callerFrame)

getCallerInfo(stack, depth) ==
    IF depth + 1 > Len(stack) THEN <<"unknown">>
    ELSE LET fr == stack[depth + 1] IN
         IF fr.fn = <<>> THEN <<"unknown">>
         ELSE LET full == fr.fn
                  short == IF Len(full) > 1 /\ full[Len(full)] # ""
                           THEN <<full[Len(full)]>>
                           ELSE Join([i \in 1..Len(full) |-> <<full[i]>>], "/")
              IN  short \o <<":", ToString(fr.line)>>

(***************************************************************************)
(* Writers and loggers.                                                    *)
(***************************************************************************)
Nil == 0
NoThread == 0
ESC == "ESC"          \* the byte 033
LstdFlags == {"Ldate", "Ltime"}
NoFlags == {}

LevelName(l) == <<"DEBUG", "INFO", "WARN", "ERROR", "FATAL">>[l + 1]

Discard == [kind |-> "discard"]
NilWriter == [kind |-> "nil"]     \* a nil io.Writer
journalWriter(p) == [kind |-> "journal", priority |-> p]
Stream(o) == [kind |-> "stream", out |-> o]
FileWriter(h) == [kind |-> "file", h |-> h]
plainFileWriter(w, level) == [kind |-> "plainFile", w |-> w, level |-> level]
MultiWriter(a, b) == [kind |-> "multi", first |-> a, second |-> b]

\* log.New(out, prefix, flag)
NewLogger(out, prefix, flag) == [out |-> out, prefix |-> prefix, flag |-> flag]

DiscardLogger == NewLogger(Discard, <<>>, NoFlags)

Colors(level) ==
    CASE level = "DEBUG" -> <<ESC, "[", "36", "m">>
      [] level = "INFO" -> <<ESC, "[", "32", "m">>
      [] level = "WARN" -> <<ESC, "[", "33", "m">>
      [] level = "ERROR" -> <<ESC, "[", "31", "m">>
      [] level = "FATAL" -> <<ESC, "[", "35", "m">>

Reset == <<ESC, "[", "0", "m">>

\* newDevLogger that does not look at `enabled`
newDevLoggerAlways(out, level, enabled, fileWriter) ==
    LET levelLabel == Colors(level) \o <<"[" \o level \o "]">> \o Reset IN
    IF fileWriter # NilWriter
    THEN NewLogger(MultiWriter(Stream(out), plainFileWriter(fileWriter, level)),
                   levelLabel \o <<" ">>, LstdFlags)
    ELSE NewLogger(Stream(out), levelLabel \o <<" ">>, LstdFlags)

\* fileWriter is a FileWriter or NilWriter
newDevLogger(out, level, enabled, fileWriter) ==
    IF ~enabled THEN DiscardLogger
    ELSE LET levelLabel == Colors(level) \o <<"[" \o level \o "]">> \o Reset IN
         IF fileWriter # NilWriter
         THEN NewLogger(MultiWriter(Stream(out), plainFileWriter(fileWriter, level)),
                        levelLabel \o <<" ">>, LstdFlags)
         ELSE NewLogger(Stream(out), levelLabel \o <<" ">>, LstdFlags)

newPlainLogger(out, level, fileWriter) ==
    LET prefix == <<"[" \o level \o "]", " ">> IN
    IF fileWriter # NilWriter
    THEN NewLogger(MultiWriter(Stream(out), fileWriter), prefix, LstdFlags)
    ELSE NewLogger(Stream(out), prefix, LstdFlags)

\* the loop of plainFileWriter.Write from token i, with the inEscape flag
RECURSIVE StripLoop(_, _, _)
StripLoop(s, i, inEscape) ==
    IF i > Len(s) THEN <<>>
    ELSE IF s[i] = ESC /\ i + 1 <= Len(s) /\ s[i + 1] = "["
         THEN StripLoop(s, i + 1, TRUE)
         ELSE IF inEscape
              THEN StripLoop(s, i + 1, s[i] # "m")
              ELSE <<s[i]>> \o StripLoop(s, i + 1, FALSE)

StripANSI(data) == StripLoop(data, 1, FALSE)

\* strings.TrimSuffix(s, "\n")
TrimNewline(s) ==
    IF s # <<>> /\ s[Len(s)] = "\n" THEN SubSeq(s, 1, Len(s) - 1) ELSE s

Stamp == <<"2006/01/02", " ", "15:04:05", " ">>

\* the bytes log.Logger hands to its writer in one Write call: a newline is
\* added when the text does not end in one
LoggerLine(lg, msg) ==
    lg.prefix
    \o (IF lg.flag # NoFlags THEN Stamp ELSE <<>>)
    \o msg
    \o (IF msg # <<>> /\ msg[Len(msg)] = "\n" THEN <<>> ELSE <<"\n">>)

\* LeafWrites with the file behind a buffer that nothing flushes
LeafWritesBuffered(w, p) ==
    CASE w.kind = "discard" -> <<>>
      [] w.kind = "journal" -> <<[to |-> "journal", priority |-> w.priority, bytes |-> p]>>
      [] w.kind = "stream" ->
             << [to |-> w.out, bytes |-> SubSeq(p, 1, Len(p) \div 2)],
                [to |-> w.out, bytes |-> SubSeq(p, Len(p) \div 2 + 1, Len(p))] >>
      [] w.kind = "file" -> <<>>
      [] w.kind = "plainFile" -> <<>>

\* The writes one Write call on a leaf writer makes.  A write to a console
\* stream is not atomic with respect to other writers of that stream: its
\* bytes arrive in two parts.
LeafWrites(w, p) ==
    CASE w.kind = "discard" -> <<>>
      [] w.kind = "journal" -> <<[to |-> "journal", priority |-> w.priority, bytes |-> p]>>
      [] w.kind = "stream" ->
             << [to |-> w.out, bytes |-> SubSeq(p, 1, Len(p) \div 2)],
                [to |-> w.out, bytes |-> SubSeq(p, Len(p) \div 2 + 1, Len(p))] >>
      [] w.kind = "file" -> <<[to |-> "file", h |-> w.h, bytes |-> p]>>
      [] w.kind = "plainFile" ->
             <<[to |-> "file", h |-> w.w.h, bytes |-> StripANSI(p)]>>

\* io.MultiWriter built with the file before the console
WritesOfFileFirst(w, p) ==
    IF w.kind = "multi"
    THEN LeafWrites(w.second, p) \o LeafWrites(w.first, p)
    ELSE LeafWrites(w, p)

\* io.MultiWriter writes to its writers in order
WritesOf(w, p) ==
    IF w.kind = "multi"
    THEN LeafWrites(w.first, p) \o LeafWrites(w.second, p)
    ELSE LeafWrites(w, p)

World == [stdout |-> outStdout, stderr |-> outStderr, files |-> files,
          journal |-> journal]

\* ApplyWrite that puts a write on a stream or the journal before what the
\* sink already holds
ApplyWriteAtFront(wd, wr, sendOK) ==
    CASE wr.to = "journal" ->
             [wd EXCEPT !.journal =
                 <<[msg |-> TrimNewline(wr.bytes), priority |-> wr.priority,
                    ident |-> programName, ok |-> sendOK]>> \o @]
             @@ [err |-> ~sendOK]
      [] wr.to = "file" ->
             IF handles[wr.h].open
             THEN [wd EXCEPT !.files[handles[wr.h].path] = @ \o wr.bytes]
                  @@ [err |-> FALSE]
             ELSE wd @@ [err |-> TRUE]
      [] OTHER -> [wd EXCEPT ![wr.to] = wr.bytes \o @] @@ [err |-> FALSE]

\* one write; sendOK is the answer of journalSendFunc.  The result carries
\* err, which stops the remaining writes of a MultiWriter.
ApplyWrite(wd, wr, sendOK) ==
    CASE wr.to = "journal" ->
             [wd EXCEPT !.journal =
                 Append(@, [msg |-> TrimNewline(wr.bytes), priority |-> wr.priority,
                            ident |-> programName, ok |-> sendOK])]
             @@ [err |-> ~sendOK]
      [] wr.to = "file" ->
             IF handles[wr.h].open
             THEN [wd EXCEPT !.files[handles[wr.h].path] = @ \o wr.bytes]
                  @@ [err |-> FALSE]
             ELSE wd @@ [err |-> TRUE]
      [] OTHER -> [wd EXCEPT ![wr.to] = @ \o wr.bytes] @@ [err |-> FALSE]

RECURSIVE ApplyWrites(_, _, _)
ApplyWrites(wd, writes, sendOK) ==
    IF writes = <<>> THEN wd
    ELSE LET r == ApplyWrite(wd, Head(writes), sendOK)
             next == [stdout |-> r.stdout, stderr |-> r.stderr,
                      files |-> r.files, journal |-> r.journal]
         IN  IF r.err THEN next ELSE ApplyWrites(next, Tail(writes), sendOK)

(***************************************************************************)
(* The process: threads, paths, environment values.                        *)
(***************************************************************************)
Threads == 1..NumThreads
Main == 1

Modes == {"development", "production"}

AppLog == "app.log"
BadPath == "/nonexistent/dir/app.log"
Paths == {AppLog, BadPath}
Openable(path) == path # BadPath

FilterInfoError == <<"I","N","F","O",",","E","R","R","O","R">>
EnvValues == {<<>>, FilterInfoError}

NoCall == [fam |-> "none"]
NoInit == [n |-> 0, mode |-> "", verbose |-> FALSE, path |-> "",
           journal |-> FALSE, opened |-> FALSE, env |-> <<>>]

logState == <<enabledLevels, loggers, programName, logFile>>
sinks == <<outStdout, outStderr, journal, files>>
threadState == <<pc, call, nCalls, issued, ret>>
pureVars == <<input, output>>

\* the package-level variables as the Go runtime initializes them
Construct ==
    /\ enabledLevels = AllEnabled
    /\ loggers = [l \in Levels |-> DiscardLogger]
    /\ programName = ""
    /\ logFile = Nil
    /\ logMutex = NoThread
    /\ handles = <<>>
    /\ files = [p \in Paths |-> <<>>]
    /\ outStdout = <<>>
    /\ outStderr = <<>>
    /\ osStderr = <<>>
    /\ journal = <<>>
    /\ alive = TRUE
    /\ exitStatus = 0
    /\ pc = [t \in Threads |-> "idle"]
    /\ call = [t \in Threads |-> NoCall]
    /\ nCalls = [t \in Threads |-> 0]
    /\ issued = {}
    /\ lastInit = NoInit
    /\ ret = [t \in Threads |-> "none"]
    /\ closeErr = "none"

Init ==
    /\ Construct
    /\ env \in EnvValues
    /\ input = <<>>
    /\ output = <<>>

(***************************************************************************)
(* Initialization and teardown.                                            *)
(***************************************************************************)
\* os.Setenv / os.Unsetenv of LOGGER_LEVELS by the host program
Setenv(v) ==
    /\ alive
    /\ env # v
    /\ env' = v
    /\ UNCHANGED <<logState, logMutex, handles, sinks, osStderr, alive, exitStatus,
                   threadState, lastInit, closeErr, pureVars>>

\* Routes with WARN sent to stdout in the production fallback
RoutesWarnStdout(logMode, verboseMode, fileWriter, journalUp) ==
    IF logMode = "production"
    THEN IF journalUp
         THEN [l \in Levels |->
                 NewLogger(journalWriter(<<"PriDebug", "PriInfo", "PriWarning",
                                           "PriErr", "PriCrit">>[l + 1]),
                           <<>>, NoFlags)]
         ELSE [l \in Levels |->
                 newPlainLogger(IF l \in {DebugLevel, InfoLevel, WarnLevel}
                                THEN "stdout" ELSE "stderr",
                                LevelName(l), fileWriter)]
    ELSE [l \in Levels |->
            newDevLogger(IF l = FatalLevel THEN "stderr" ELSE "stdout",
                         LevelName(l),
                         IF l = DebugLevel THEN verboseMode ELSE TRUE,
                         fileWriter)]

\* Routes with FATAL sent to the journal at the priority of ERROR
RoutesFatalAsErr(logMode, verboseMode, fileWriter, journalUp) ==
    IF logMode = "production"
    THEN IF journalUp
         THEN [l \in Levels |->
                 NewLogger(journalWriter(<<"PriDebug", "PriInfo", "PriWarning",
                                           "PriErr", "PriErr">>[l + 1]),
                           <<>>, NoFlags)]
         ELSE [l \in Levels |->
                 newPlainLogger(IF l \in {DebugLevel, InfoLevel}
                                THEN "stdout" ELSE "stderr",
                                LevelName(l), fileWriter)]
    ELSE [l \in Levels |->
            newDevLogger(IF l = FatalLevel THEN "stderr" ELSE "stdout",
                         LevelName(l),
                         IF l = DebugLevel THEN verboseMode ELSE TRUE,
                         fileWriter)]

\* the route table InitWithFile installs; fileWriter is a FileWriter or NilWriter
Routes(logMode, verboseMode, fileWriter, journalUp) ==
    IF logMode = "production"
    THEN IF journalUp
         THEN [l \in Levels |->
                 NewLogger(journalWriter(<<"PriDebug", "PriInfo", "PriWarning",
                                           "PriErr", "PriCrit">>[l + 1]),
                           <<>>, NoFlags)]
         ELSE [l \in Levels |->
                 newPlainLogger(IF l \in {DebugLevel, InfoLevel}
                                THEN "stdout" ELSE "stderr",
                                LevelName(l), fileWriter)]
    ELSE [l \in Levels |->
            newDevLogger(IF l = FatalLevel THEN "stderr" ELSE "stdout",
                         LevelName(l),
                         IF l = DebugLevel THEN verboseMode ELSE TRUE,
                         fileWriter)]

\* InitWithFile opening the file with O_TRUNC instead of O_APPEND
InitWithFileTrunc(logMode, verboseMode, filePath, journalUp) ==
    LET opened == filePath # "" /\ Openable(filePath)
        h == Len(handles) + 1
        fileWriter == IF opened THEN FileWriter(h) ELSE NilWriter
    IN
    /\ alive
    /\ lastInit.n < MaxInits
    /\ programName' = "app"
    /\ enabledLevels' = IF env # <<>> THEN parseLevels(env) ELSE enabledLevels
    /\ handles' = IF opened
                  THEN Append(handles, [path |-> filePath, open |-> TRUE])
                  ELSE handles
    /\ logFile' = IF opened THEN h ELSE logFile
    /\ osStderr' = IF filePath # "" /\ ~opened
                   THEN Append(osStderr, <<"failed to open log file ", filePath>>)
                   ELSE osStderr
    /\ loggers' = Routes(logMode, verboseMode, fileWriter, journalUp)
    /\ lastInit' = [n |-> lastInit.n + 1, mode |-> logMode, verbose |-> verboseMode,
                    path |-> filePath, journal |-> journalUp, opened |-> opened,
                    env |-> env]
    /\ files' = IF opened THEN [files EXCEPT ![filePath] = <<>>] ELSE files
    /\ UNCHANGED <<env, logMutex, outStdout, outStderr, journal, alive, exitStatus,
                   threadState, closeErr, pureVars>>

\* InitWithFile that tees to the file the logger still holds when this call
\* opened none
InitWithFileKeepsTee(logMode, verboseMode, filePath, journalUp) ==
    LET opened == filePath # "" /\ Openable(filePath)
        h == Len(handles) + 1
        fileWriter == IF opened THEN FileWriter(h)
                      ELSE IF logFile # Nil THEN FileWriter(logFile) ELSE NilWriter
    IN
    /\ alive
    /\ lastInit.n < MaxInits
    /\ programName' = "app"
    /\ enabledLevels' = IF env # <<>> THEN parseLevels(env) ELSE enabledLevels
    /\ handles' = IF opened
                  THEN Append(handles, [path |-> filePath, open |-> TRUE])
                  ELSE handles
    /\ logFile' = IF opened THEN h ELSE logFile
    /\ osStderr' = IF filePath # "" /\ ~opened
                   THEN Append(osStderr, <<"failed to open log file ", filePath>>)
                   ELSE osStderr
    /\ loggers' = Routes(logMode, verboseMode, fileWriter, journalUp)
    /\ lastInit' = [n |-> lastInit.n + 1, mode |-> logMode, verbose |-> verboseMode,
                    path |-> filePath, journal |-> journalUp, opened |-> opened,
                    env |-> env]
    /\ UNCHANGED <<env, logMutex, sinks, alive, exitStatus, threadState, closeErr,
                   pureVars>>

\* journalUp is the answer of journalIsEnabled(), asked only in production
InitWithFile(logMode, verboseMode, filePath, journalUp) ==
    LET opened == filePath # "" /\ Openable(filePath)
        h == Len(handles) + 1
        fileWriter == IF opened THEN FileWriter(h) ELSE NilWriter
    IN
    /\ alive
    /\ lastInit.n < MaxInits
    /\ programName' = "app"
    /\ enabledLevels' = IF env # <<>> THEN parseLevels(env) ELSE enabledLevels
    /\ handles' = IF opened
                  THEN Append(handles, [path |-> filePath, open |-> TRUE])
                  ELSE handles
    /\ logFile' = IF opened THEN h ELSE logFile
    /\ osStderr' = IF filePath # "" /\ ~opened
                   THEN Append(osStderr, <<"failed to open log file ", filePath>>)
                   ELSE osStderr
    /\ loggers' = Routes(logMode, verboseMode, fileWriter, journalUp)
    /\ lastInit' = [n |-> lastInit.n + 1, mode |-> logMode, verbose |-> verboseMode,
                    path |-> filePath, journal |-> journalUp, opened |-> opened,
                    env |-> env]
    /\ UNCHANGED <<env, logMutex, sinks, alive, exitStatus, threadState, closeErr,
                   pureVars>>

JournalAnswers(logMode) == IF logMode = "production" THEN BOOLEAN ELSE {FALSE}

\* Init(logMode, verboseMode)
InitNoFile ==
    \E m \in Modes, v \in BOOLEAN :
        \E j \in JournalAnswers(m) : InitWithFile(m, v, "", j)

\* Close that forgets to set logFile to nil
CloseKeepsHandle ==
    /\ alive
    /\ IF logFile # Nil
       THEN /\ closeErr' = IF handles[logFile].open THEN "nil" ELSE "err"
            /\ handles' = [handles EXCEPT ![logFile].open = FALSE]
            /\ UNCHANGED logFile
       ELSE /\ closeErr' = "nil"
            /\ UNCHANGED <<handles, logFile>>
    /\ UNCHANGED <<env, enabledLevels, loggers, programName, logMutex, sinks,
                   osStderr, alive, exitStatus, threadState, lastInit, pureVars>>

\* Close: (*os.File).Close fails on a file that is already closed
Close ==
    /\ alive
    /\ IF logFile # Nil
       THEN /\ closeErr' = IF handles[logFile].open THEN "nil" ELSE "err"
            /\ handles' = [handles EXCEPT ![logFile].open = FALSE]
            /\ logFile' = Nil
       ELSE /\ closeErr' = "nil"
            /\ UNCHANGED <<handles, logFile>>
    /\ UNCHANGED <<env, enabledLevels, loggers, programName, logMutex, sinks,
                   osStderr, alive, exitStatus, threadState, lastInit, pureVars>>

(***************************************************************************)
(* The logging operations.  One operation is modelled for the fifteen      *)
(* per-level functions and Api: they differ in level, in how the message   *)
(* is composed, and in whether the process exits at the end.               *)
(***************************************************************************)
FOp(level, format, v) == [fam |-> "f", level |-> level, format |-> format, v |-> v]
LnOp(level, v) == [fam |-> "ln", level |-> level, v |-> v]
KVOp(level, msg, keyvals) ==
    [fam |-> "KV", level |-> level, msg |-> msg, keyvals |-> keyvals]
ApiOp(statusCode, msg) == [fam |-> "Api", statusCode |-> statusCode, msg |-> msg]

LevelOf(op) == IF op.fam = "Api" THEN statusCodeToLevel(op.statusCode) ELSE op.level

IsFatalOp(op) == op.fam # "Api" /\ op.level = FatalLevel

OpName(op) ==
    IF op.fam = "Api" THEN "Api"
    ELSE <<"Debug", "Info", "Warn", "Error", "Fatal">>[op.level + 1] \o op.fam

\* the frame of the function that called the logging operation: the one
\* the call names, or the thread's worker function
CallerFrame(t, op) ==
    IF "frame" \in DOMAIN op
    THEN op.frame
    ELSE [fn |-> <<"github.com", "acme", "app", "main.worker">>, line |-> 10 + t]

\* the operation passing 1 to getCallerInfo: the frame of the operation
CallerOfDepthOne(t, op) ==
    getCallerInfo(StackOf(OpName(op), CallerFrame(t, op)), 1)

\* caller := getCallerInfo(2) in an operation called by thread t
CallerOf(t, op) ==
    getCallerInfo(StackOf(OpName(op), CallerFrame(t, op)), 2)

\* the message text handed to the logger's Println / Printf
ComposeMsg(op, caller) ==
    CASE op.fam = "f" ->
             Sprintf(<<"[", "%s", "]", " ", "%s">>,
                     <<StrV(caller), StrV(Sprintf(op.format, op.v))>>)
      [] op.fam = "ln" ->
             Sprintf(<<"[", "%s", "]", " ", "%s">>,
                     <<StrV(caller), StrV(Sprint(op.v))>>)
      [] op.fam = "KV" ->
             Sprintf(<<"[", "%s", "]", " ", "%s", "%s">>,
                     <<StrV(caller), StrV(op.msg), StrV(encodeFields(op.keyvals))>>)
      [] op.fam = "Api" ->
             Sprintf(<<"[", "%s", "]", " ", "[", "%d", "]", " ", "%s">>,
                     <<StrV(caller), IntV(op.statusCode), StrV(op.msg)>>)

\* what the operation hands to the logger: Println ends the message with a
\* newline, Printf (the structured family) does not
Printed(op, msg) == IF op.fam = "KV" THEN msg ELSE msg \o <<"\n">>

\* the logger the operation prints on (Api switches on its level)
LoggerFor(op) == loggers[LevelOf(op)]

RECURSIVE Sum(_, _)
Sum(f, S) ==
    IF S = {} THEN 0
    ELSE LET x == CHOOSE y \in S : TRUE IN f[x] + Sum(f, S \ {x})

TotalCalls == Sum(nCalls, Threads)

\* Call as the version of the package without logMutex had it: an enabled
\* operation goes straight to composing and printing
CallNoLock(t, op) ==
    /\ alive
    /\ pc[t] = "idle"
    /\ TotalCalls < MaxCalls
    /\ nCalls' = [nCalls EXCEPT ![t] = @ + 1]
    /\ IF isLevelEnabled(LevelOf(op))
       THEN /\ pc' = [pc EXCEPT ![t] = "compose"]
            /\ call' = [call EXCEPT ![t] = [op |-> op, id |-> nCalls[t] + 1,
                                            msg |-> <<>>, pending |-> <<>>]]
            /\ issued' = issued \cup {[t |-> t, id |-> nCalls[t] + 1, op |-> op]}
            /\ UNCHANGED <<ret, alive, exitStatus>>
       ELSE IF IsFatalOp(op)
            THEN /\ alive' = FALSE
                 /\ exitStatus' = 1
                 /\ pc' = [pc EXCEPT ![t] = "exit"]
                 /\ call' = [call EXCEPT ![t] = [op |-> op, id |-> nCalls[t] + 1,
                                                 msg |-> <<>>, pending |-> <<>>]]
                 /\ UNCHANGED <<issued, ret>>
            ELSE /\ ret' = [ret EXCEPT ![t] = "filtered"]
                 /\ UNCHANGED <<pc, call, issued, alive, exitStatus>>
    /\ UNCHANGED <<env, logState, logMutex, handles, sinks, osStderr, lastInit,
                   closeErr, pureVars>>

\* Call without the enablement check
CallNoCheck(t, op) ==
    /\ alive
    /\ pc[t] = "idle"
    /\ TotalCalls < MaxCalls
    /\ nCalls' = [nCalls EXCEPT ![t] = @ + 1]
    /\ pc' = [pc EXCEPT ![t] = "lock"]
    /\ call' = [call EXCEPT ![t] = [op |-> op, id |-> nCalls[t] + 1,
                                    msg |-> <<>>, pending |-> <<>>]]
    /\ issued' = issued \cup {[t |-> t, id |-> nCalls[t] + 1, op |-> op]}
    /\ UNCHANGED <<ret, alive, exitStatus>>
    /\ UNCHANGED <<env, logState, logMutex, handles, sinks, osStderr, lastInit,
                   closeErr, pureVars>>

\* entry of the operation: the enablement check
Call(t, op) ==
    /\ alive
    /\ pc[t] = "idle"
    /\ TotalCalls < MaxCalls
    /\ nCalls' = [nCalls EXCEPT ![t] = @ + 1]
    /\ IF isLevelEnabled(LevelOf(op))
       THEN /\ pc' = [pc EXCEPT ![t] = "lock"]
            /\ call' = [call EXCEPT ![t] = [op |-> op, id |-> nCalls[t] + 1,
                                            msg |-> <<>>, pending |-> <<>>]]
            /\ issued' = issued \cup {[t |-> t, id |-> nCalls[t] + 1, op |-> op]}
            /\ UNCHANGED <<ret, alive, exitStatus>>
       ELSE IF IsFatalOp(op)
            THEN /\ alive' = FALSE
                 /\ exitStatus' = 1
                 /\ pc' = [pc EXCEPT ![t] = "exit"]
                 /\ call' = [call EXCEPT ![t] = [op |-> op, id |-> nCalls[t] + 1,
                                                 msg |-> <<>>, pending |-> <<>>]]
                 /\ UNCHANGED <<issued, ret>>
            ELSE /\ ret' = [ret EXCEPT ![t] = "filtered"]
                 /\ UNCHANGED <<pc, call, issued, alive, exitStatus>>
    /\ UNCHANGED <<env, logState, logMutex, handles, sinks, osStderr, lastInit,
                   closeErr, pureVars>>

\* Lock that does not wait for the holder to release
LockNoWait(t) ==
    /\ alive
    /\ pc[t] = "lock"
    /\ logMutex' = t
    /\ pc' = [pc EXCEPT ![t] = "compose"]
    /\ UNCHANGED <<env, logState, handles, sinks, osStderr, alive, exitStatus,
                   call, nCalls, issued, ret, lastInit, closeErr, pureVars>>

\* logMutex.Lock()
Lock(t) ==
    /\ alive
    /\ pc[t] = "lock"
    /\ logMutex = NoThread
    /\ logMutex' = t
    /\ pc' = [pc EXCEPT ![t] = "compose"]
    /\ UNCHANGED <<env, logState, handles, sinks, osStderr, alive, exitStatus,
                   call, nCalls, issued, ret, lastInit, closeErr, pureVars>>

\* caller := getCallerInfo(2), then the message is formatted
Compose(t) ==
    /\ alive
    /\ pc[t] = "compose"
    /\ call' = [call EXCEPT ![t].msg =
                   ComposeMsg(call[t].op, CallerOf(t, call[t].op))]
    /\ pc' = [pc EXCEPT ![t] = "write"]
    /\ UNCHANGED <<env, logState, logMutex, handles, sinks, osStderr, alive,
                   exitStatus, nCalls, issued, ret, lastInit, closeErr, pureVars>>

SetWorld(wd) ==
    /\ outStdout' = wd.stdout
    /\ outStderr' = wd.stderr
    /\ files' = wd.files
    /\ journal' = wd.journal

IsStreamWrite(wr) == wr.to \in {"stdout", "stderr"}

\* the logger's Println / Printf starts: the first part of a console write
WriteBegin(t) ==
    LET lg == LoggerFor(call[t].op)
        writes == WritesOf(lg.out, LoggerLine(lg, Printed(call[t].op, call[t].msg)))
        first == writes # <<>> /\ IsStreamWrite(Head(writes))
    IN
    /\ alive
    /\ pc[t] = "write"
    /\ SetWorld(IF first THEN ApplyWrites(World, <<Head(writes)>>, TRUE) ELSE World)
    /\ call' = [call EXCEPT ![t].pending = IF first THEN Tail(writes) ELSE writes]
    /\ pc' = [pc EXCEPT ![t] = "write2"]
    /\ UNCHANGED <<env, logState, logMutex, handles, osStderr, alive, exitStatus,
                   nCalls, issued, ret, lastInit, closeErr, pureVars>>

SendAnswers(writes) ==
    IF \E i \in 1..Len(writes) : writes[i].to = "journal" THEN BOOLEAN ELSE {TRUE}

\* WriteEnd that sends once more when journalSendFunc answered with an error
WriteEndRetry(t) ==
    /\ alive
    /\ pc[t] = "write2"
    /\ \E sendOK \in SendAnswers(call[t].pending) :
           SetWorld(IF sendOK
                    THEN ApplyWrites(World, call[t].pending, TRUE)
                    ELSE ApplyWrites(ApplyWrites(World, call[t].pending, FALSE),
                                     call[t].pending, TRUE))
    /\ call' = [call EXCEPT ![t].pending = <<>>]
    /\ pc' = [pc EXCEPT ![t] = "return"]
    /\ UNCHANGED <<env, logState, logMutex, handles, osStderr, alive, exitStatus,
                   nCalls, issued, ret, lastInit, closeErr, pureVars>>

\* the rest of the Write call; the logger ignores its error
WriteEnd(t) ==
    /\ alive
    /\ pc[t] = "write2"
    /\ \E sendOK \in SendAnswers(call[t].pending) :
           SetWorld(ApplyWrites(World, call[t].pending, sendOK))
    /\ call' = [call EXCEPT ![t].pending = <<>>]
    /\ pc' = [pc EXCEPT ![t] = "return"]
    /\ UNCHANGED <<env, logState, logMutex, handles, osStderr, alive, exitStatus,
                   nCalls, issued, ret, lastInit, closeErr, pureVars>>

\* an operation that returns without the deferred logMutex.Unlock()
UnlockForgets(t) ==
    /\ alive
    /\ pc[t] = "return"
    /\ ~IsFatalOp(call[t].op)
    /\ pc' = [pc EXCEPT ![t] = "idle"]
    /\ call' = [call EXCEPT ![t] = NoCall]
    /\ ret' = [ret EXCEPT ![t] = "logged"]
    /\ UNCHANGED <<env, logState, logMutex, handles, sinks, osStderr, alive,
                   exitStatus, nCalls, issued, lastInit, closeErr, pureVars>>

\* a non-fatal operation returns: the deferred logMutex.Unlock() runs
Unlock(t) ==
    /\ alive
    /\ pc[t] = "return"
    /\ ~IsFatalOp(call[t].op)
    /\ logMutex' = NoThread
    /\ pc' = [pc EXCEPT ![t] = "idle"]
    /\ call' = [call EXCEPT ![t] = NoCall]
    /\ ret' = [ret EXCEPT ![t] = "logged"]
    /\ UNCHANGED <<env, logState, handles, sinks, osStderr, alive, exitStatus,
                   nCalls, issued, lastInit, closeErr, pureVars>>

\* Exit with os.Exit(1) placed before the logger's Println / Printf
ExitBeforeWrite(t) ==
    /\ alive
    /\ pc[t] = "write"
    /\ IsFatalOp(call[t].op)
    /\ alive' = FALSE
    /\ exitStatus' = 1
    /\ pc' = [pc EXCEPT ![t] = "exit"]
    /\ UNCHANGED <<env, logState, logMutex, handles, sinks, osStderr, call,
                   nCalls, issued, ret, lastInit, closeErr, pureVars>>

\* a fatal operation that unlocks first and ends the process afterwards
ExitAfterUnlock(t) ==
    /\ alive
    /\ pc[t] = "return"
    /\ IsFatalOp(call[t].op)
    /\ logMutex' = NoThread
    /\ pc' = [pc EXCEPT ![t] = "exit"]
    /\ UNCHANGED <<env, logState, handles, sinks, osStderr, call, alive,
                   exitStatus, nCalls, issued, ret, lastInit, closeErr, pureVars>>

\* a fatal operation ends in os.Exit(1): deferred calls do not run
Exit(t) ==
    /\ alive
    /\ pc[t] = "return"
    /\ IsFatalOp(call[t].op)
    /\ alive' = FALSE
    /\ exitStatus' = 1
    /\ pc' = [pc EXCEPT ![t] = "exit"]
    /\ UNCHANGED <<env, logState, logMutex, handles, sinks, osStderr, call,
                   nCalls, issued, ret, lastInit, closeErr, pureVars>>

(***************************************************************************)
(* Concurrent use: one initialization, then the threads log.               *)
(***************************************************************************)
\* the calls thread t may make as its n-th call; every message embeds the
\* thread's and the call's number
ConcOps(t, n) ==
    {FOp(l, <<"goroutine-", "%d", "-", "%d">>, <<IntV(t), IntV(n)>>) :
         l \in {DebugLevel, ErrorLevel, FatalLevel}}
    \cup {LnOp(l, <<StrV(<<"plain-log">>), IntV(t), IntV(n)>>) :
              l \in {InfoLevel, FatalLevel}}
    \cup {KVOp(l, <<"structured-log">>, <<StrV(<<"t">>), IntV(t), StrV(<<"id">>), IntV(n)>>) :
              l \in {WarnLevel, FatalLevel}}
    \cup {ApiOp(500, <<"api-log-", ToString(t), "-", ToString(n)>>)}

Boot ==
    /\ lastInit.n = 0
    /\ InitNoFile

Work(t) ==
    /\ lastInit.n > 0
    /\ \E op \in ConcOps(t, nCalls[t] + 1) : Call(t, op)

NextConc ==
    \/ Boot
    \/ \E t \in Threads : Work(t)
    \/ \E t \in Threads : Lock(t)
    \/ \E t \in Threads : Compose(t)
    \/ \E t \in Threads : WriteBegin(t)
    \/ \E t \in Threads : WriteEnd(t)
    \/ \E t \in Threads : Unlock(t)
    \/ \E t \in Threads : Exit(t)

SpecConc == Init /\ [][NextConc]_vars

(***************************************************************************)
(* One call of any operation after one initialization of any kind.         *)
(***************************************************************************)
StatusCodes == {-1, 0, 100, 200, 301, 399, 400, 404, 499, 500, 503, 600}

AllOps ==
    {FOp(l, <<"job ", "%d", " of ", "%s">>, <<IntV(7), StrV(<<"batch">>)>>) :
         l \in Levels}
    \cup {LnOp(l, v) : l \in Levels,
                       v \in {<<StrV(<<"plain-log">>), IntV(7)>>,
                              <<IntV(1), IntV(2)>>,
                              <<StrV(<<"a">>), StrV(<<"b">>)>>,
                              <<StrV(<<"done", "\n">>)>>}}
    \cup {KVOp(l, <<"structured-log">>, kv) : l \in Levels,
                       kv \in {<<>>,
                               <<StrV(<<"id">>), IntV(7)>>,
                               <<IntV(42), StrV(<<"x">>)>>,
                               <<StrV(<<"a">>), IntV(1), StrV(<<"b">>)>>}}
    \cup {ApiOp(code, <<"api-log">>) : code \in StatusCodes}

BootAny ==
    /\ lastInit.n = 0
    /\ \E m \in Modes, v \in BOOLEAN, path \in Paths \cup {""} :
           \E j \in JournalAnswers(m) : InitWithFile(m, v, path, j)

OneCall ==
    /\ lastInit.n > 0
    /\ TotalCalls = 0
    /\ \E op \in AllOps : Call(Main, op)

NextCall ==
    \/ BootAny
    \/ OneCall
    \/ Lock(Main)
    \/ Compose(Main)
    \/ WriteBegin(Main)
    \/ WriteEnd(Main)
    \/ Unlock(Main)
    \/ Exit(Main)

SpecCall == Init /\ [][NextCall]_vars

(***************************************************************************)
(* The life of the logger in one thread: it is initialized and             *)
(* re-initialized, used and closed.  LOGGER_LEVELS keeps the value the     *)
(* process started with.                                                   *)
(***************************************************************************)
LifeOps(n) ==
    {FOp(l, <<"msg-", "%d">>, <<IntV(n)>>) :
         l \in {DebugLevel, ErrorLevel, FatalLevel}}

Idle == pc[Main] = "idle"

\* the verbose flag is varied in development, where the code reads it
VerboseArgs(logMode) == IF logMode = "production" THEN {FALSE} ELSE BOOLEAN

LifeInit ==
    /\ Idle
    /\ \E m \in Modes, path \in Paths \cup {""} :
           \E v \in VerboseArgs(m), j \in JournalAnswers(m) :
               InitWithFile(m, v, path, j)

LifeClose == Idle /\ Close

LifeCall == \E op \in LifeOps(nCalls[Main] + 1) : Call(Main, op)

Next ==
    \/ LifeInit
    \/ LifeClose
    \/ LifeCall
    \/ Lock(Main)
    \/ Compose(Main)
    \/ WriteBegin(Main)
    \/ WriteEnd(Main)
    \/ Unlock(Main)
    \/ Exit(Main)

Spec == Init /\ [][Next]_vars

(***************************************************************************)
(* The host program changes LOGGER_LEVELS between initializations.         *)
(***************************************************************************)
EnvSetenv == Idle /\ \E v \in EnvValues : Setenv(v)

EnvInit == Idle /\ InitNoFile

NextEnv ==
    \/ EnvSetenv
    \/ EnvInit
    \/ LifeCall
    \/ Lock(Main)
    \/ Compose(Main)
    \/ WriteBegin(Main)
    \/ WriteEnd(Main)
    \/ Unlock(Main)
    \/ Exit(Main)

SpecEnv == Init /\ [][NextEnv]_vars

(***************************************************************************)
(* Pure functions applied to inputs drawn from bounded sets.               *)
(***************************************************************************)
\* sequences over S of length 0..n
RECURSIVE SeqsUpTo(_, _)
SeqsUpTo(S, n) ==
    IF n = 0 THEN {<<>>}
    ELSE LET shorter == SeqsUpTo(S, n - 1) IN
         shorter \cup {Append(q, x) : q \in shorter, x \in S}

FilterTokens ==
    { <<>>, <<" ">>, <<"x">>,
      <<"D","E","B","U","G">>, <<"d","e","b","u","g">>,
      <<"i","n","f","o">>, <<" ","I","n","f","o"," ">>,
      <<"W","A","R","N">>, <<"w","a","r","n","i","n","g">>,
      <<"E","r","r","o","r">>, <<"F","A","T","A","L">>,
      <<"I","N","F","O","S">>, <<"W","A","R","N","I","N">> }

\* filter strings: up to MaxTokens tokens joined by commas
FilterStrings ==
    {Join(q, ",") : q \in SeqsUpTo(FilterTokens, MaxTokens) \ {<<>>}}

InitParse ==
    /\ Construct
    /\ env = <<>>
    /\ input \in FilterStrings
    /\ output = <<>>

\* a caller applies parseLevels to the input
ApplyParseLevels ==
    /\ output = <<>>
    /\ output' = <<parseLevels(input)>>
    /\ UNCHANGED <<env, logState, logMutex, handles, sinks, osStderr, alive,
                   exitStatus, threadState, lastInit, closeErr, input>>

SpecParse == InitParse /\ [][ApplyParseLevels]_vars

FieldItems == {StrV(<<"a">>), StrV(<<"b">>), IntV(1), IntV(42), BoolV(TRUE)}

InitFields ==
    /\ Construct
    /\ env = <<>>
    /\ input \in SeqsUpTo(FieldItems, MaxItems)
    /\ output = <<>>

\* a caller applies encodeFields to the input
ApplyEncodeFields ==
    /\ output = <<>>
    /\ output' = <<encodeFields(input)>>
    /\ UNCHANGED <<env, logState, logMutex, handles, sinks, osStderr, alive,
                   exitStatus, threadState, lastInit, closeErr, input>>

SpecFields == InitFields /\ [][ApplyEncodeFields]_vars

(***************************************************************************)
(* Development mode with a log file: one plain call whose text is made of  *)
(* the bytes plainFileWriter looks at.                                     *)
(***************************************************************************)
TextTokens == {ESC, "[", "m"}

Texts == SeqsUpTo(TextTokens, MaxText)

BootFile ==
    /\ lastInit.n = 0
    /\ \E v \in BOOLEAN : InitWithFile("development", v, AppLog, FALSE)

TextCall ==
    /\ lastInit.n > 0
    /\ TotalCalls = 0
    /\ \E text \in Texts : Call(Main, LnOp(InfoLevel, <<StrV(text)>>))

NextFile ==
    \/ BootFile
    \/ TextCall
    \/ Lock(Main)
    \/ Compose(Main)
    \/ WriteBegin(Main)
    \/ WriteEnd(Main)
    \/ Unlock(Main)

SpecFile == Init /\ [][NextFile]_vars

(***************************************************************************)
(* Every logging operation called once from one of several call sites.     *)
(***************************************************************************)
CallerFrames ==
    { [fn |-> <<"github.com", "acme", "app", "main.worker">>, line |-> 11],
      [fn |-> <<"main.main">>, line |-> 7],
      [fn |-> <<"github.com", "acme", "app", "store.(*DB).Open">>, line |-> 120],
      [fn |-> <<"main.worker.func1">>, line |-> 33],
      [fn |-> <<>>, line |-> 0],
      NoFrame }

\* one call of each of the sixteen operations
EachOp ==
    {FOp(l, <<"x">>, <<>>) : l \in Levels}
    \cup {LnOp(l, <<StrV(<<"x">>)>>) : l \in Levels}
    \cup {KVOp(l, <<"x">>, <<>>) : l \in Levels}
    \cup {ApiOp(200, <<"x">>)}

\* the call `op` made from the call site `frame`
From(op, frame) == [x \in DOMAIN op \cup {"frame"} |->
                       IF x = "frame" THEN frame ELSE op[x]]

BootCaller ==
    /\ lastInit.n = 0
    /\ \E m \in Modes : InitWithFile(m, TRUE, "", FALSE)

CallerCall ==
    /\ lastInit.n > 0
    /\ TotalCalls = 0
    /\ \E op \in EachOp, frame \in CallerFrames : Call(Main, From(op, frame))

NextCaller ==
    \/ BootCaller
    \/ CallerCall
    \/ Lock(Main)
    \/ Compose(Main)
    \/ WriteBegin(Main)
    \/ WriteEnd(Main)
    \/ Unlock(Main)
    \/ Exit(Main)

SpecCaller == Init /\ [][NextCaller]_vars

(***************************************************************************)
(* Threads that make non-fatal calls only, under a scheduler that runs     *)
(* every goroutine that can take a step.                                   *)
(***************************************************************************)
NonFatalOps(t, n) ==
    {FOp(DebugLevel, <<"goroutine-", "%d", "-", "%d">>, <<IntV(t), IntV(n)>>),
     LnOp(InfoLevel, <<StrV(<<"plain-log">>), IntV(t), IntV(n)>>),
     KVOp(WarnLevel, <<"structured-log">>, <<StrV(<<"t">>), IntV(t), StrV(<<"id">>), IntV(n)>>),
     ApiOp(500, <<"api-log-", ToString(t), "-", ToString(n)>>)}

\* Init(logMode, true) with no journal
BootConsole ==
    /\ lastInit.n = 0
    /\ \E m \in Modes : InitWithFile(m, TRUE, "", FALSE)

WorkNonFatal(t) ==
    /\ lastInit.n > 0
    /\ \E op \in NonFatalOps(t, nCalls[t] + 1) : Call(t, op)

\* the steps of thread t inside an operation
Step(t) ==
    \/ Lock(t)
    \/ Compose(t)
    \/ WriteBegin(t)
    \/ WriteEnd(t)
    \/ Unlock(t)

NextLive ==
    \/ BootConsole
    \/ \E t \in Threads : WorkNonFatal(t)
    \/ \E t \in Threads : Step(t)

SpecLive ==
    Init /\ [][NextLive]_vars /\ \A t \in Threads : WF_vars(Step(t))

(***************************************************************************)
(* Properties.                                                             *)
(***************************************************************************)
\* s holds sub as a run of consecutive tokens
Contains(s, sub) ==
    \E i \in 0..(Len(s) - Len(sub)) : SubSeq(s, i + 1, i + Len(sub)) = sub

\* the newline-terminated lines of a stream, and what follows the last newline
CompleteLines(s) ==
    LET parts == Split(s, "\n") IN SubSeq(parts, 1, Len(parts) - 1)

PartialLine(s) ==
    LET parts == Split(s, "\n") IN parts[Len(parts)]

\* the message and the line of call c (a record with fields t, id, op)
RecordMsg(c) ==
    ComposeMsg(c.op, CallerOf(c.t, c.op))

RecordLine(c) ==
    LoggerLine(loggers[LevelOf(c.op)], Printed(c.op, RecordMsg(c)))

\* the console stream a logger writes on, if any
ConsoleOf(lg) ==
    CASE lg.out.kind = "stream" -> lg.out.out
      [] lg.out.kind = "multi" -> lg.out.first.out
      [] OTHER -> "none"

SeverityTag(c) == "[" \o LevelName(LevelOf(c.op)) \o "]"

\* call c has left the logger's Println / Printf
Written(c) ==
    pc[c.t] \in {"lock", "compose", "write", "write2"} => call[c.t].id # c.id

InCS(t) == pc[t] \in {"compose", "write", "write2", "return"}

\* C1: when threads log concurrently after one initialization, each console
\* stream holds exactly one line per call that was enabled, routed to it and
\* has been written; every line is that call's complete record (severity tag
\* and message), never a fragment or two records run together; the journal
\* receives exactly one send per call routed to it.
OneLinePerCall ==
    /\ \A o \in {"stdout", "stderr"} :
           LET lines == CompleteLines(World[o])
               due == {c \in issued : Written(c) /\ ConsoleOf(loggers[LevelOf(c.op)]) = o}
           IN  /\ Len(lines) = Cardinality(due)
               /\ \A i \in 1..Len(lines) :
                      \E c \in due :
                          /\ Append(lines[i], "\n") = RecordLine(c)
                          /\ \E k \in 1..Len(lines[i]) : lines[i][k] = SeverityTag(c)
                          /\ Contains(lines[i], RecordMsg(c))
               /\ \A c \in due :
                      \E i \in 1..Len(lines) : Append(lines[i], "\n") = RecordLine(c)
               /\ (\A t \in Threads : pc[t] # "write2") => PartialLine(World[o]) = <<>>
    /\ LET due == {c \in issued :
                      Written(c) /\ loggers[LevelOf(c.op)].out.kind = "journal"}
       IN  /\ Len(journal) = Cardinality(due)
           /\ \A c \in due :
                  \E i \in 1..Len(journal) : journal[i].msg = RecordMsg(c)

\* two threads have logged and returned, their lines are in the streams
OneLinePerCallWitness ==
    /\ alive
    /\ \A t \in Threads : pc[t] = "idle"
    /\ \E c1, c2 \in issued : c1.t # c2.t
    /\ Len(CompleteLines(outStdout)) + Len(CompleteLines(outStderr)) >= 2

\* C2: at most one logging operation is between logMutex.Lock() and the
\* release, and that operation's thread is the holder, so no two threads
\* are writing to the backends at once.
OneInCriticalSection ==
    /\ \A t1, t2 \in Threads : (InCS(t1) /\ InCS(t2)) => t1 = t2
    /\ \A t \in Threads : InCS(t) => logMutex = t
    /\ \A t1, t2 \in Threads :
           (pc[t1] \in {"write", "write2"} /\ pc[t2] \in {"write", "write2"}) => t1 = t2

\* one thread is in the middle of its write while another waits for the lock
OneInCriticalSectionWitness ==
    \E t1, t2 \in Threads :
        /\ t1 # t2
        /\ pc[t1] = "write2"
        /\ pc[t2] = "lock"
        /\ call[t1].op.fam # call[t2].op.fam

\* the record of the fatal call of thread t is at the FATAL logger's outputs
FatalDelivered(t) ==
    LET c == [t |-> t, id |-> call[t].id, op |-> call[t].op]
        lg == loggers[FatalLevel]
    IN  IF lg.out.kind = "journal"
        THEN \E i \in 1..Len(journal) :
                 /\ journal[i].msg = RecordMsg(c)
                 /\ journal[i].priority = "PriCrit"
        ELSE /\ Contains(outStderr, RecordLine(c))
             /\ \E k \in 1..Len(outStderr) : outStderr[k] = "[FATAL]"
             /\ lastInit.opened =>
                    Contains(files[lastInit.path],
                             <<"[FATAL]", " ", "2006/01/02", " ", "15:04:05", " ">>
                                 \o RecordMsg(c) \o <<"\n">>)

\* C3: with FATAL enabled, a process that a fatal call has ended has exit
\* status 1 and the call's record is at the FATAL logger's outputs (the write
\* completed before the exit); a fatal call that passed the filter never
\* returns to its caller.
FatalWritesThenExits ==
    /\ \A t \in Threads :
           (pc[t] = "exit" /\ enabledLevels[FatalLevel]) =>
               /\ IsFatalOp(call[t].op)
               /\ ~alive
               /\ exitStatus = 1
               /\ call[t].pending = <<>>
               /\ FatalDelivered(t)
    /\ \A c \in issued :
           IsFatalOp(c.op) =>
               /\ pc[c.t] \in {"lock", "compose", "write", "write2", "return", "exit"}
               /\ call[c.t].id = c.id
               /\ ret[c.t] # "logged"
    /\ alive => exitStatus = 0
    /\ ~alive => (exitStatus = 1 /\ \E t \in Threads : pc[t] = "exit")

\* an enabled fatal call has ended the process after writing to a file too
FatalWritesThenExitsWitness ==
    /\ pc[Main] = "exit"
    /\ enabledLevels[FatalLevel]
    /\ outStderr # <<>>
    /\ lastInit.opened
    /\ files[lastInit.path] # <<>>

\* no backend holds the message of call c
NoTrace(c) ==
    /\ ~Contains(outStdout, RecordMsg(c))
    /\ ~Contains(outStderr, RecordMsg(c))
    /\ \A i \in 1..Len(journal) : journal[i].msg # RecordMsg(c)
    /\ \A p \in Paths : ~Contains(files[p], RecordMsg(c))

\* C4: with FATAL disabled, a fatal call ends the process with status 1 at
\* once: it never passed the filter, does not hold logMutex, and no backend
\* holds its record, also while another thread is in the critical section.
DisabledFatalExitsAtOnce ==
    \A t \in Threads :
        (pc[t] = "exit" /\ ~enabledLevels[FatalLevel]) =>
            LET c == [t |-> t, id |-> call[t].id, op |-> call[t].op] IN
            /\ IsFatalOp(c.op)
            /\ ~alive
            /\ exitStatus = 1
            /\ logMutex # t
            /\ c \notin issued
            /\ NoTrace(c)

\* a disabled fatal call ended the process while another thread was writing
DisabledFatalExitsAtOnceWitness ==
    \E t1, t2 \in Threads :
        /\ t1 # t2
        /\ pc[t1] = "exit"
        /\ ~enabledLevels[FatalLevel]
        /\ pc[t2] = "write2"
        /\ logMutex = t2

\* C5: a call of a non-fatal operation whose severity is disabled changes
\* nothing (no backend, not logMutex, not the enabled-set, the route table
\* or the file handle) and returns; one whose severity is enabled goes on to
\* the lock whatever else is disabled, and its record reaches its logger.
FilteredCallHasNoEffect ==
    /\ [][\A op \in AllOps :
              (Call(Main, op) /\ ~IsFatalOp(op)) =>
                  IF enabledLevels[LevelOf(op)]
                  THEN /\ pc'[Main] = "lock"
                       /\ [t |-> Main, id |-> nCalls'[Main], op |-> op] \in issued'
                  ELSE /\ ret'[Main] = "filtered"
                       /\ UNCHANGED <<pc, call, issued, logMutex, logState, handles,
                                      sinks, osStderr, alive, exitStatus, env>>]_vars
    /\ [](\A c \in issued :
              (pc[c.t] = "return" /\ loggers[LevelOf(c.op)] # DiscardLogger) =>
                  IF ConsoleOf(loggers[LevelOf(c.op)]) = "none"
                  THEN \E i \in 1..Len(journal) : journal[i].msg = RecordMsg(c)
                  ELSE Contains(World[ConsoleOf(loggers[LevelOf(c.op)])],
                                RecordLine(c)))

\* a disabled non-fatal call has returned and nothing was written
FilteredCallHasNoEffectWitness ==
    /\ ret[Main] = "filtered"
    /\ pc[Main] = "idle"
    /\ \E l \in Levels : ~enabledLevels[l]
    /\ outStdout = <<>> /\ outStderr = <<>> /\ journal = <<>>
    /\ logMutex = NoThread

\* C6: after an Init or InitWithFile call made while LOGGER_LEVELS is absent
\* or empty, all five severities are enabled, whatever filter an earlier
\* initialization installed.
InitResetsEnabledLevels ==
    (lastInit.n > 0 /\ lastInit.env = <<>>) => enabledLevels = AllEnabled

\* the names of a severity in a filter string, in upper case
LevelNames(l) ==
    CASE l = DebugLevel -> {<<"D","E","B","U","G">>}
      [] l = InfoLevel -> {<<"I","N","F","O">>}
      [] l = WarnLevel -> {<<"W","A","R","N">>, <<"W","A","R","N","I","N","G">>}
      [] l = ErrorLevel -> {<<"E","R","R","O","R">>}
      [] l = FatalLevel -> {<<"F","A","T","A","L">>}

\* two characters that are equal or the two cases of one letter
SameLetter(c, d) ==
    c = d \/ \E n \in 1..26 : {c, d} \subseteq {LowerCase[n], UpperCase[n]}

EqualFold(x, y) ==
    Len(x) = Len(y) /\ \A k \in 1..Len(x) : SameLetter(x[k], y[k])

\* S[i..j] lies between two commas (or the ends of S) and holds no comma
IsToken(S, i, j) ==
    /\ i = 1 \/ S[i - 1] = ","
    /\ j = Len(S) \/ S[j + 1] = ","
    /\ \A k \in i..j : S[k] # ","

\* a name of l is a comma-separated token of S, whatever its case and the
\* whitespace around it
NameIsToken(S, l) ==
    \E i \in 1..Len(S) : \E j \in i..Len(S) :
        /\ IsToken(S, i, j)
        /\ \E a \in i..j : \E b \in a..j :
               /\ \A k \in i..(a - 1) : IsSpace(S[k])
               /\ \A k \in (b + 1)..j : IsSpace(S[k])
               /\ \E nm \in LevelNames(l) : EqualFold(SubSeq(S, a, b), nm)

\* C7 as stated: parseLevels(S) enables L exactly when S is empty or a name
\* of L is, case-insensitively, a comma-separated token of S.
ParseLevelsIffEmptyOrNamed ==
    output # <<>> =>
        \A l \in Levels :
            output[1][l] <=> (input = <<>> \/ NameIsToken(input, l))

\* C7 as amended: parseLevels(S) enables L exactly when S is empty or holds
\* only whitespace, or a name of L (DEBUG, INFO, WARN or WARNING, ERROR,
\* FATAL) is a comma-separated token of S once the token's surrounding
\* whitespace is removed and it is upper-cased; other tokens are ignored and
\* the result is always a map over the five severities.
ParseLevelsIffBlankOrNamed ==
    output # <<>> =>
        /\ DOMAIN output[1] = Levels
        /\ \A l \in Levels :
               output[1][l] <=>
                   \/ \A k \in 1..Len(input) : IsSpace(input[k])
                   \/ NameIsToken(input, l)

\* a padded mixed-case name next to an unknown token: only INFO is enabled
ParseLevelsWitness ==
    /\ output # <<>>
    /\ input = <<" ","I","n","f","o"," ",",","x">>
    /\ output[1][InfoLevel]
    /\ \A l \in Levels \ {InfoLevel} : ~output[1][l]

\* the severity the claim gives a status code
ApiSeverity(code) ==
    IF code >= 500 THEN ErrorLevel ELSE IF code >= 400 THEN WarnLevel ELSE InfoLevel

\* the one record of thread t's Api call is at the logger of its severity
ApiEmitted(t) ==
    LET code == call[t].op.statusCode
        lg == loggers[ApiSeverity(code)]
        tag == "[" \o LevelName(ApiSeverity(code)) \o "]"
        text == <<"[", "main.worker", ":", ToString(10 + t), "]", " ",
                  "[", ToString(code), "]", " ">> \o call[t].op.msg
    IN  IF lg.out.kind = "journal"
        THEN /\ Len(journal) = 1
             /\ journal[1].msg = text
             /\ journal[1].priority =
                    <<"PriDebug", "PriInfo", "PriWarning", "PriErr", "PriCrit">>
                        [ApiSeverity(code) + 1]
             /\ outStdout = <<>> /\ outStderr = <<>>
        ELSE LET o == ConsoleOf(lg)
                 other == IF o = "stdout" THEN "stderr" ELSE "stdout"
             IN  /\ o \in {"stdout", "stderr"}
                 /\ World[o] = lg.prefix \o Stamp \o text \o <<"\n">>
                 /\ \E k \in 1..Len(lg.prefix) : lg.prefix[k] = tag
                 /\ World[other] = <<>>
                 /\ journal = <<>>

\* C8: Api(code, msg) is filtered by and printed on the logger of one
\* severity: ERROR for code >= 500, WARN for 400 <= code < 500, INFO below
\* 400; the record reads "[caller] [code] msg".
ApiRoutedBySeverity ==
    /\ [][\A op \in AllOps :
              (op.fam = "Api" /\ Call(Main, op)) =>
                  (pc'[Main] = "lock" <=> enabledLevels[ApiSeverity(op.statusCode)])]_vars
    /\ [](\A t \in Threads :
              (pc[t] = "return" /\ call[t].op.fam = "Api") => ApiEmitted(t))

\* a redirect was logged on the INFO logger
ApiRoutedBySeverityWitness ==
    /\ pc[Main] = "return"
    /\ call[Main].op.fam = "Api"
    /\ call[Main].op.statusCode = 301
    /\ Contains(outStdout, <<"[", "301", "]", " ", "api-log", "\n">>)

\* the pairs encodeFields keeps: first item at an odd position, a string,
\* with a partner
KeptPairs(keyvals) ==
    {i \in 1..Len(keyvals) :
         i % 2 = 1 /\ i + 1 <= Len(keyvals) /\ keyvals[i].typ = "string"}

\* " key=value" for every kept pair from position i on, in input order
RECURSIVE PairsText(_, _)
PairsText(keyvals, i) ==
    IF i > Len(keyvals) THEN <<>>
    ELSE (IF i \in KeptPairs(keyvals)
          THEN <<" ">> \o keyvals[i].s \o <<"=">> \o FormatValue(keyvals[i + 1])
          ELSE <<>>)
         \o PairsText(keyvals, i + 1)

\* C9: encodeFields yields one key=value token per pair whose first item is
\* a string, drops the other pairs and an unpaired last item, and returns
\* the empty string when no token is left, otherwise a space followed by
\* the tokens joined by single spaces in input order.
EncodeFieldsKeepsStringKeyedPairs ==
    output # <<>> =>
        /\ output[1] = PairsText(input, 1)
        /\ (output[1] = <<>>) <=> (KeptPairs(input) = {})
        /\ output[1] # <<>> => output[1][1] = " "
        /\ Cardinality({k \in 1..Len(output[1]) : output[1][k] = "="})
               = Cardinality(KeptPairs(input))

\* a dropped pair, a kept pair and an unpaired last item in one input
EncodeFieldsWitness ==
    /\ output = << <<" ", "a", "=", "1">> >>
    /\ input = <<IntV(42), StrV(<<"b">>), StrV(<<"a">>), IntV(1), BoolV(TRUE)>>

\* C10: in development mode the record of a DEBUG call that passed the
\* enabled-set is on stdout exactly when the latest initialization had
\* verbose = true, and every development initialization sets the DEBUG
\* logger by its verbose argument alone, whatever the logger was before.
DebugFollowsVerbose ==
    /\ [](\A c \in issued :
              (/\ pc[c.t] = "return"
               /\ call[c.t].id = c.id
               /\ LevelOf(c.op) = DebugLevel
               /\ lastInit.mode = "development") =>
                  (Contains(outStdout, RecordMsg(c)) <=> lastInit.verbose))
    /\ []((\E k \in 1..Len(outStdout) : outStdout[k] = "[DEBUG]") =>
              enabledLevels[DebugLevel])
    /\ [][(lastInit'.n # lastInit.n /\ lastInit'.mode = "development") =>
              ((loggers'[DebugLevel] = DiscardLogger) <=> ~lastInit'.verbose)]_vars

\* a DEBUG record was printed in colour, then the logger was re-initialized
\* with verbose = false and the next DEBUG call left nothing
DebugFollowsVerboseWitness ==
    /\ lastInit.n = 2
    /\ lastInit.mode = "development"
    /\ ~lastInit.verbose
    /\ pc[Main] = "return"
    /\ call[Main].id = 2
    /\ LevelOf(call[Main].op) = DebugLevel
    /\ \E c \in issued :
           /\ c.id = 1
           /\ LevelOf(c.op) = DebugLevel
           /\ Contains(outStdout, <<ESC, "[", "36", "m", "[DEBUG]">>)
           /\ Contains(outStdout, RecordMsg(c))
    /\ ~Contains(outStdout, RecordMsg([t |-> Main, id |-> 2, op |-> call[Main].op]))

\* the console stream the claim gives a mode and a severity
ConsoleFor(mode, l) ==
    IF mode = "production"
    THEN (IF l \in {DebugLevel, InfoLevel} THEN "stdout" ELSE "stderr")
    ELSE (IF l = FatalLevel THEN "stderr" ELSE "stdout")

\* C11: without a journal the console stream of a record depends on mode
\* and severity alone: production sends DEBUG and INFO to stdout (DEBUG also
\* with verbose = false) and WARN, ERROR, FATAL to stderr; development sends
\* all to stdout but FATAL, which goes to stderr.  Nothing of the record
\* reaches the other stream.
ConsoleFixedByModeAndSeverity ==
    (lastInit.n > 0 /\ ~lastInit.journal) =>
        \A c \in issued :
            LET l == LevelOf(c.op)
                o == ConsoleFor(lastInit.mode, l)
                other == IF o = "stdout" THEN "stderr" ELSE "stdout"
                silent == /\ lastInit.mode = "development"
                          /\ l = DebugLevel
                          /\ ~lastInit.verbose
            IN  /\ World[other] = <<>>
                /\ journal = <<>>
                /\ (pc[c.t] \in {"return", "exit", "idle"} /\ ~silent) =>
                       /\ Contains(World[o], RecordMsg(c))
                       /\ \E k \in 1..Len(World[o]) : World[o][k] = SeverityTag(c)
                /\ silent => World[o] = <<>>

\* production without journal and with verbose = false: a DEBUG record is
\* on stdout
ConsoleFixedByModeAndSeverityWitness ==
    /\ lastInit.mode = "production"
    /\ ~lastInit.journal
    /\ ~lastInit.verbose
    /\ pc[Main] = "return"
    /\ LevelOf(call[Main].op) = DebugLevel
    /\ Contains(outStdout, <<"[DEBUG]">>)
    /\ outStderr = <<>>

\* the journal priority the claim gives a severity
JournalPriority(l) ==
    CASE l = DebugLevel -> "PriDebug"
      [] l = InfoLevel -> "PriInfo"
      [] l = WarnLevel -> "PriWarning"
      [] l = ErrorLevel -> "PriErr"
      [] l = FatalLevel -> "PriCrit"

CloseIsIdempotent ==
    [][LifeClose =>
           /\ logFile' = Nil
           /\ logFile = Nil =>
                  /\ closeErr' = "nil"
                  /\ UNCHANGED <<logState, handles, sinks, logMutex, osStderr,
                                 alive, exitStatus>>]_vars

\* a Close has returned nil although no file was ever opened
CloseIsIdempotentWitness ==
    /\ lastInit.n > 0
    /\ handles = <<>>
    /\ closeErr = "nil"
    /\ logFile = Nil

\* where sub first starts in s (s holds sub)
Pos(s, sub) ==
    CHOOSE i \in 0..(Len(s) - Len(sub)) :
        /\ SubSeq(s, i + 1, i + Len(sub)) = sub
        /\ \A j \in 0..(i - 1) : SubSeq(s, j + 1, j + Len(sub)) # sub

\* the line of call c as a log file holds it: tag, date and time, message
FileLine(c) ==
    <<SeverityTag(c), " ", "2006/01/02", " ", "15:04:05", " ">>
        \o Printed(c.op, RecordMsg(c))

\* C14: the log file only grows: no step truncates or rewrites what a file
\* holds; a record printed while the file opened by the latest
\* InitWithFile is still open is in that file, and the records of a file
\* are in the order of their calls, across Close and re-initialization.
FileIsAppendOnly ==
    /\ [][\A p \in Paths :
              /\ Len(files'[p]) >= Len(files[p])
              /\ SubSeq(files'[p], 1, Len(files[p])) = files[p]]_vars
    /\ [](\A c \in issued :
              (/\ pc[c.t] = "return"
               /\ call[c.t].id = c.id
               /\ lastInit.opened
               /\ handles[Len(handles)].open
               /\ ~(lastInit.mode = "production" /\ lastInit.journal)
               /\ ~(lastInit.mode = "development" /\ ~lastInit.verbose
                        /\ LevelOf(c.op) = DebugLevel)) =>
                  Contains(files[lastInit.path], FileLine(c)))
    /\ [](\A p \in Paths : \A c1, c2 \in issued :
              (/\ c1.id < c2.id
               /\ Contains(files[p], FileLine(c1))
               /\ Contains(files[p], FileLine(c2))) =>
                  Pos(files[p], FileLine(c1)) < Pos(files[p], FileLine(c2)))

\* two cycles on one path: the DEBUG record of the first, closed cycle is
\* followed in the file by the ERROR record of the second, whose
\* initialization (development, not verbose) prints no DEBUG record
FileIsAppendOnlyWitness ==
    /\ Len(handles) = 2
    /\ handles[1].path = handles[2].path
    /\ ~handles[1].open
    /\ lastInit.mode = "development"
    /\ ~lastInit.verbose
    /\ \E c1, c2 \in issued :
           /\ c1.id = 1 /\ LevelOf(c1.op) = DebugLevel
           /\ c2.id = 2 /\ LevelOf(c2.op) = ErrorLevel
           /\ Contains(files[handles[1].path], FileLine(c1))
           /\ Contains(files[handles[1].path], FileLine(c2))
           /\ Pos(files[handles[1].path], FileLine(c1))
                  < Pos(files[handles[1].path], FileLine(c2))

\* C15: in development mode with a file attached, the bytes ESC '[' never
\* appear next to each other in a log file, whatever the logged text, while
\* the console copy of a record carries the colour codes.
NoEscapeInFile ==
    lastInit.mode = "development" =>
        /\ \A p \in Paths : \A i \in 1..(Len(files[p]) - 1) :
               ~(files[p][i] = ESC /\ files[p][i + 1] = "[")
        /\ pc[Main] = "return" => Contains(outStdout, Colors("INFO"))

\* C16: after an InitWithFile whose path cannot be opened the diagnostic is
\* on stderr, the logger holds no file handle (logFile is nil), the console
\* writers of the mode are installed, and the calls and Close that follow
\* complete with their records on the console.
FailedOpenLeavesNoHandle ==
    (lastInit.n > 0 /\ lastInit.path # "" /\ ~lastInit.opened) =>
        /\ logFile = Nil
        /\ Contains(osStderr, <<<<"failed to open log file ", lastInit.path>>>>)
        /\ \A l \in Levels : loggers[l].out.kind # "multi"

\* C17: at most one log file handle is open at any time, over any sequence
\* of InitWithFile, Init and Close.
AtMostOneHandleOpen ==
    Cardinality({h \in 1..Len(handles) : handles[h].open}) <= 1

\* C18: in production without a journal the console line has no date and
\* time when no log file is attached ('[LEVEL] [caller:line] message'), and
\* with a file attached the record's copy in the file has them.
PlainConsoleOmitsStamp ==
    (lastInit.n > 0 /\ lastInit.mode = "production" /\ ~lastInit.journal) =>
        /\ ~lastInit.opened =>
               \A o \in {"stdout", "stderr"} :
                   /\ ~Contains(World[o], <<"2006/01/02">>)
                   /\ ~Contains(World[o], <<"15:04:05">>)
        /\ lastInit.opened =>
               \A c \in issued :
                   (pc[c.t] = "return" /\ isLevelEnabled(LevelOf(c.op))) =>
                       Contains(files[lastInit.path], FileLine(c))

\* the texts of the arguments one after another
RECURSIVE Adjacent(_)
Adjacent(v) ==
    IF v = <<>> THEN <<>> ELSE FormatValue(Head(v)) \o Adjacent(Tail(v))

\* the texts of the arguments, a space before an argument exactly when
\* neither it nor the one before it is a string
RECURSIVE SpacedFrom(_, _)
SpacedFrom(v, i) ==
    IF i > Len(v) THEN <<>>
    ELSE (IF i > 1 /\ v[i - 1].typ # "string" /\ v[i].typ # "string"
          THEN <<" ">> ELSE <<>>)
         \o FormatValue(v[i]) \o SpacedFrom(v, i + 1)

\* the plain-family calls whose record has reached a console stream
PlainOnConsole ==
    {c \in issued : /\ c.op.fam = "ln"
                    /\ Written(c)
                    /\ pc[c.t] # "idle"
                    /\ isLevelEnabled(c.op.level)
                    /\ ConsoleOf(loggers[c.op.level]) # "none"}

\* C19: the plain family renders its message as the texts of its arguments
\* with no separator: consecutive arguments are adjacent, never
\* space-separated, whatever their types.
PlainArgsAdjacent ==
    \A c \in PlainOnConsole :
        Contains(World[ConsoleOf(loggers[c.op.level])],
                 <<"]", " ">> \o Adjacent(c.op.v) \o <<"\n">>)

\* C19, amended: consecutive arguments are adjacent when at least one of the
\* two is a string and separated by one space when neither is, as fmt.Sprint
\* renders them.
PlainArgsAsSprint ==
    \A c \in PlainOnConsole :
        Contains(World[ConsoleOf(loggers[c.op.level])],
                 <<"]", " ">> \o SpacedFrom(c.op.v, 1) \o <<"\n">>)

\* a plain call with two integers has returned, its record on a console
PlainArgsAsSprintWitness ==
    /\ pc[Main] = "return"
    /\ call[Main].op.fam = "ln"
    /\ call[Main].op.v = <<IntV(1), IntV(2)>>
    /\ \E o \in {"stdout", "stderr"} : Contains(World[o], <<"1", " ", "2", "\n">>)

\* the label the claim gives a call made from the call site fr
LabelFor(fr) ==
    IF fr = NoFrame THEN <<"unknown">>
    ELSE IF fr.fn = <<>> THEN <<"unknown">>
    ELSE <<fr.fn[Len(fr.fn)], ":", ToString(fr.line)>>

\* C20: for every logging operation of every family the caller label of the
\* record is the function and line of the operation's immediate caller,
\* never the operation itself or getCallerInfo; when the caller's frame
\* cannot be resolved the label is 'unknown' and the record is still
\* written.
LabelNamesImmediateCaller ==
    \A c \in issued :
        LET label == <<"[">> \o LabelFor(CallerFrame(c.t, c.op)) \o <<"]", " ">>
            o == ConsoleOf(loggers[LevelOf(c.op)])
        IN  /\ (pc[c.t] \in {"write", "write2", "return", "exit"}) =>
                   /\ Len(call[c.t].msg) > Len(label)
                   /\ SubSeq(call[c.t].msg, 1, Len(label)) = label
            /\ (pc[c.t] \in {"return", "exit"} /\ o # "none") =>
                   /\ Contains(World[o], label)
                   /\ \A k \in 1..Len(World[o]) :
                          /\ World[o][k] # "logger.getCallerInfo"
                          /\ World[o][k] # "logger." \o OpName(c.op)
                          /\ World[o][k] # "540"

\* a structured call made from a method has returned with the method's
\* name and line in its record
LabelNamesImmediateCallerWitness ==
    /\ pc[Main] = "return"
    /\ call[Main].op.fam = "KV"
    /\ CallerFrame(Main, call[Main].op) =
           [fn |-> <<"github.com", "acme", "app", "store.(*DB).Open">>, line |-> 120]
    /\ Contains(outStdout, <<"[", "store.(*DB).Open", ":", "120", "]", " ", "x">>)

\* the sends made for call c
SendsOf(c) == {i \in 1..Len(journal) : journal[i].msg = RecordMsg(c)}

\* the send of thread t's current call was answered with an error
SendFailed(t) ==
    /\ pc[t] = "return"
    /\ \E i \in 1..Len(journal) :
           /\ journal[i].msg = call[t].msg
           /\ ~journal[i].ok

\* C21: when journalSendFunc answers a send with an error the journal
\* writer returns the failure, the record is sent exactly once (no retry),
\* and the operation returns to its caller with the lock released, so that
\* later calls of any thread go on.
FailedSendIsNotRetried ==
    /\ [](\A c \in issued :
              loggers[LevelOf(c.op)].out.kind = "journal" =>
                  /\ Cardinality(SendsOf(c)) = (IF Written(c) THEN 1 ELSE 0)
                  /\ ApplyWrite(World,
                                LeafWrites(loggers[LevelOf(c.op)].out, RecordLine(c))[1],
                                FALSE).err)
    /\ [][\A t \in Threads :
              (SendFailed(t) /\ pc'[t] # pc[t]) =>
                  IF IsFatalOp(call[t].op)
                  THEN pc'[t] = "exit" /\ ~alive'
                  ELSE /\ pc'[t] = "idle"
                       /\ ret'[t] = "logged"
                       /\ logMutex' = NoThread
                       /\ journal' = journal]_vars

\* a send of thread 1 failed, the thread returned, and thread 2 has logged
\* after it
FailedSendIsNotRetriedWitness ==
    /\ Len(journal) = 2
    /\ ~journal[1].ok
    /\ journal[2].ok
    /\ ret = <<"logged", "logged">>
    /\ logMutex = NoThread
    /\ \E c \in issued : c.t = 1 /\ journal[1].msg = RecordMsg(c)
    /\ \E c \in issued : c.t = 2 /\ journal[2].msg = RecordMsg(c)

\* the handle a logger tees its records to
TeeHandle(lg) ==
    IF lg.out.second.kind = "plainFile" THEN lg.out.second.w.h ELSE lg.out.second.h

\* logger lg tees to a file that is open
FileAttached(lg) == lg.out.kind = "multi" /\ handles[TeeHandle(lg)].open

\* C22: with a log file attached, when an enabled operation returns its
\* record is on the console stream and in the file: the write goes straight
\* to the file.  Every record logged before a fatal exit, and the fatal
\* record itself, is in the file although Close never ran.
RecordInFileOnReturn ==
    /\ [][(pc[Main] = "write2" /\ pc'[Main] = "return"
           /\ FileAttached(LoggerFor(call[Main].op))) =>
              LET c == [t |-> Main, id |-> call[Main].id, op |-> call[Main].op]
                  lg == LoggerFor(c.op)
                  p == handles[TeeHandle(lg)].path
              IN  /\ files'[p] = files[p] \o FileLine(c)
                  /\ Contains(World[ConsoleOf(lg)], SubSeq(RecordLine(c), 1, 1))
                  /\ Contains(IF ConsoleOf(lg) = "stdout" THEN outStdout' ELSE outStderr',
                              RecordLine(c))]_vars
    /\ [][\A p \in Paths : /\ Len(files'[p]) >= Len(files[p])
                           /\ SubSeq(files'[p], 1, Len(files[p])) = files[p]]_vars
    /\ []((pc[Main] = "exit" /\ call[Main].msg # <<>>
             /\ FileAttached(LoggerFor(call[Main].op))) =>
              LET c == [t |-> Main, id |-> call[Main].id, op |-> call[Main].op]
                  lg == LoggerFor(c.op)
              IN  /\ Contains(files[handles[TeeHandle(lg)].path], FileLine(c))
                  /\ Contains(World[ConsoleOf(lg)], RecordLine(c)))

\* the process has exited in a fatal call, Close never ran, and the file
\* holds the earlier record and the fatal one
RecordInFileOnReturnWitness ==
    /\ ~alive
    /\ pc[Main] = "exit"
    /\ closeErr = "none"
    /\ lastInit.n = 1
    /\ lastInit.opened
    /\ Cardinality(issued) = 2
    /\ Contains(files[lastInit.path], <<"[ERROR]", " ", "2006/01/02">>)
    /\ Contains(files[lastInit.path], <<"msg-", "1", "\n">>)
    /\ Contains(files[lastInit.path], <<"[FATAL]", " ", "2006/01/02">>)
    /\ Contains(files[lastInit.path], <<"msg-", "2", "\n">>)

\* C23: an enabled fatal operation ends the process outside the critical
\* section: when the process exits, the lock has been released.
FatalExitsUnlocked ==
    \A t \in Threads :
        (pc[t] = "exit" /\ call[t].msg # <<>>) => logMutex # t

\* C24: an operation checks enablement, resolves the caller and composes
\* the message before it takes the lock, then writes and releases: the
\* caller's arguments are never formatted while the lock is held, and the
\* message is complete when the lock is taken.
ComposesBeforeLock ==
    \A t \in Threads :
        /\ pc[t] = "compose" => logMutex # t
        /\ (logMutex = t /\ pc[t] # "idle") => call[t].msg # <<>>

\* the writer the claim gives severity l after an initialization with the
\* arguments and answers recorded in li, h being the handle it opened
WriterFor(li, l, h) ==
    IF li.mode = "production" /\ li.journal
    THEN [kind |-> "journal", priority |-> JournalPriority(l)]
    ELSE IF li.mode = "development" /\ l = DebugLevel /\ ~li.verbose
    THEN [kind |-> "discard"]
    ELSE LET console == [kind |-> "stream", out |-> ConsoleFor(li.mode, l)]
             file == [kind |-> "file", h |-> h]
         IN  IF ~li.opened THEN console
             ELSE [kind |-> "multi", first |-> console,
                   second |-> IF li.mode = "production" THEN file
                              ELSE [kind |-> "plainFile", w |-> file,
                                    level |-> LevelName(l)]]

\* C25: after an initialization the writer of each of the five severities
\* is fixed by that call's mode, verbose flag, journal answer and file-open
\* result: all five are replaced by every call, and nothing an earlier
\* initialization installed (a tee to an earlier file included) is left.
RoutingFixedByLatestInit ==
    lastInit.n > 0 =>
        \A l \in Levels :
            /\ loggers[l].out = WriterFor(lastInit, l, Len(handles))
            /\ loggers[l].out.kind = "multi" =>
                   /\ lastInit.opened
                   /\ TeeHandle(loggers[l]) = Len(handles)

\* a second initialization without a file has replaced the routing of a
\* first that teed to a file: the file is still open, no logger writes to it
RoutingFixedByLatestInitWitness ==
    /\ lastInit.n = 2
    /\ lastInit.path = ""
    /\ Len(handles) = 1
    /\ handles[1].open
    /\ logFile = 1
    /\ \A l \in Levels : loggers[l].out.kind \in {"stream", "discard"}

\* s from position i with every ESC '[' ... 'm' sequence removed: a
\* sequence runs from ESC '[' to the first 'm' after it
RECURSIVE Unescaped(_, _)
Unescaped(s, i) ==
    IF i > Len(s) THEN <<>>
    ELSE LET ends == {j \in (i + 2)..Len(s) : s[j] = "m"} IN
         IF s[i] = ESC /\ i + 1 <= Len(s) /\ s[i + 1] = "[" /\ ends # {}
         THEN Unescaped(s, (CHOOSE j \in ends : \A k \in ends : j <= k) + 1)
         ELSE <<s[i]>> \o Unescaped(s, i + 1)

\* C26: what the file relay writes for the bytes of one write is the input
\* with every ESC '[' ... 'm' sequence removed; every byte outside such a
\* sequence is kept, in order, the record's final newline included.
RelayKeepsOtherBytes ==
    (pc[Main] = "return" /\ lastInit.mode = "development" /\ lastInit.opened) =>
        LET lg == LoggerFor(call[Main].op)
            line == LoggerLine(lg, Printed(call[Main].op, call[Main].msg))
        IN  /\ files[lastInit.path] = Unescaped(line, 1)
            /\ files[lastInit.path][Len(files[lastInit.path])] = "\n"

FatalWriting(t) ==
    /\ pc[t] \in {"write2", "return", "exit"}
    /\ call[t].msg # <<>>
    /\ IsFatalOp(call[t].op)

\* C28: the record of an enabled fatal operation is the last thing the
\* process writes: once its write has begun nothing reaches any backend
\* but the rest of that write, and at the exit the fatal record ends the
\* sink it went to.
FatalRecordIsLast ==
    /\ [][\A t \in Threads :
              FatalWriting(t) =>
                  \/ UNCHANGED sinks
                  \/ pc[t] = "write2" /\ pc'[t] = "return"]_vars
    /\ [](\A t \in Threads :
              (FatalWriting(t) /\ pc[t] = "exit") =>
                  LET c == [t |-> t, id |-> call[t].id, op |-> call[t].op]
                      lg == LoggerFor(c.op)
                      o == ConsoleOf(lg)
                  IN  IF o = "none"
                      THEN journal[Len(journal)].msg = RecordMsg(c)
                      ELSE SubSeq(World[o], Len(World[o]) - Len(RecordLine(c)) + 1,
                                  Len(World[o])) = RecordLine(c))

\* the process has exited with the fatal record of thread 1 written while
\* thread 2 was waiting for the lock
FatalRecordIsLastWitness ==
    /\ ~alive
    /\ pc[1] = "exit"
    /\ call[1].msg # <<>>
    /\ pc[2] = "lock"
    /\ logMutex = 1

\* the sink the record of call c goes to: a console stream, the journal, or
\* none
SinkOf(c) ==
    LET lg == loggers[LevelOf(c.op)] IN
    IF lg.out.kind = "journal" THEN "journal" ELSE ConsoleOf(lg)

\* where the record of call c starts in its sink, 0 when it is not there
PlaceOf(c) ==
    IF SinkOf(c) = "journal"
    THEN LET at == {i \in 1..Len(journal) : journal[i].msg = RecordMsg(c)}
         IN  IF at = {} THEN 0 ELSE CHOOSE i \in at : \A j \in at : i <= j
    ELSE IF Contains(World[SinkOf(c)], RecordMsg(c))
         THEN Pos(World[SinkOf(c)], RecordMsg(c)) + 1
         ELSE 0

TeeClosed(lg) == lg.out.kind = "multi" /\ ~handles[TeeHandle(lg)].open

\* C30: after Close an operation on a logger that tees to the closed file
\* still puts its record on the console stream and returns normally; a
\* file no open handle refers to receives nothing, and the failed file
\* write does not reach the caller.
ClosedTeeKeepsConsole ==
    /\ [][\A p \in Paths :
              (\A h \in 1..Len(handles) : handles[h].path = p => ~handles[h].open) =>
                  files'[p] = files[p]]_vars
    /\ []((pc[Main] \in {"return", "exit"} /\ call[Main].msg # <<>>
             /\ TeeClosed(LoggerFor(call[Main].op))) =>
              LET c == [t |-> Main, id |-> call[Main].id, op |-> call[Main].op]
              IN  Contains(World[ConsoleOf(LoggerFor(c.op))], RecordLine(c)))
    /\ [][(pc[Main] = "return" /\ TeeClosed(LoggerFor(call[Main].op))
           /\ pc'[Main] # "return") =>
              IF IsFatalOp(call[Main].op)
              THEN pc'[Main] = "exit" /\ exitStatus' = 1
              ELSE /\ pc'[Main] = "idle"
                   /\ ret'[Main] = "logged"
                   /\ logMutex' = NoThread
                   /\ UNCHANGED <<sinks, osStderr>>]_vars

\* InitWithFile, Close, then a call: the call has returned, its record is
\* on the console and the file is empty
ClosedTeeKeepsConsoleWitness ==
    /\ lastInit.n = 1
    /\ lastInit.opened
    /\ closeErr = "nil"
    /\ ~handles[1].open
    /\ pc[Main] = "idle"
    /\ ret[Main] = "logged"
    /\ nCalls[Main] = 1
    /\ files[lastInit.path] = <<>>
    /\ \E o \in {"stdout", "stderr"} : Contains(World[o], <<"msg-", "1", "\n">>)

====
